---- MODULE Spec2Model ----
(***************************************************************************)
(* Access-control and compliance core of the OpenMedRecord backend:        *)
(* tenant resolution (api/middleware/tenant.py), the tenant-aware unit of  *)
(* work (core/database.py), the audit ledger (core/audit.py and            *)
(* api/middleware/audit.py) and the break-glass manager                    *)
(* (core/break_glass.py).                                                  *)
(*                                                                         *)
(* Conventions.  A Python str whose characters matter (tenant claims,      *)
(* schema names) is a sequence of one-character strings; other strings are *)
(* atomic.  A URL path is the sequence of its segments.  Wall-clock time   *)
(* is an integer number of minutes.                                        *)
(***************************************************************************)
EXTENDS Integers, Sequences, FiniteSets, TLC

VARIABLES
    pc,               \* position of each request in the middleware/handler stack
    req,              \* the request's path, method and bearer token
    tenant_context,   \* contextvars.ContextVar: one value per task context
    session,          \* the handler's unit of work opened by get_db
    outcome,          \* what the handler produced: a response or an exception
    response,         \* status code finally sent to the caller
    mw_audit,         \* what AuditMiddleware._write_audit did for the request
    resources,        \* committed PHI resource mutations
    audit_logs,       \* committed rows of the audit_logs table
    active_sessions,  \* break_glass._active_sessions (insertion-ordered dict)
    bg_call,          \* in-flight break-glass calls and their unit of work
    next_uuid,        \* source of fresh uuid4 values for break-glass sessions
    last_check,       \* the is_break_glass_active call that has just returned, if any
    scan,             \* is_break_glass_active calls running in threads, step by step
    encryption_key,   \* settings.FIELD_ENCRYPTION_KEY of this process
    fernet,           \* utils/encryption.py: the module global _fernet
    cipher,           \* encrypt_value / decrypt_value calls running in threads
    encrypted,        \* what encrypt_value has returned so far, with its plaintext
    next_call,        \* number of the next encrypt_value call
    query,            \* the list_audit_logs call that has just returned, if any
    derived,          \* a tenant claim taken through SchemaFor and the validator
    now               \* wall clock, minutes

vars == <<pc, req, tenant_context, session, outcome, response, mw_audit,
          resources, audit_logs, active_sessions, bg_call, next_uuid, last_check,
          scan, encryption_key, fernet, cipher, encrypted, next_call, query,
          derived, now>>

reqVars == <<pc, req, tenant_context, session, outcome, response, mw_audit>>
bgVars == <<active_sessions, bg_call, next_uuid, last_check, scan>>
cipherVars == <<encryption_key, fernet, cipher, encrypted, next_call>>
queryVars == <<query>>
schemaVars == <<derived>>

-----------------------------------------------------------------------------
(* Settings (core/config.py)                                               *)

DEFAULT_TENANT_SCHEMA == <<"p", "u", "b", "l", "i", "c">>
AUDIT_LOG_ENABLED == TRUE
FIELD_ENCRYPTION_KEY == ""

-----------------------------------------------------------------------------
(* Schema names (core/database.py)                                         *)

Letters ==
    {"a", "b", "c", "d", "e", "f", "g", "h", "i", "j", "k", "l", "m",
     "n", "o", "p", "q", "r", "s", "t", "u", "v", "w", "x", "y", "z",
     "A", "B", "C", "D", "E", "F", "G", "H", "I", "J", "K", "L", "M",
     "N", "O", "P", "Q", "R", "S", "T", "U", "V", "W", "X", "Y", "Z"}
DigitChars == {"0", "1", "2", "3", "4", "5", "6", "7", "8", "9"}

\* {0,62} in _SAFE_SCHEMA_RE: at most 62 characters after the first one.
MaxSchemaTail == 62

\* re.match(r"^[a-zA-Z_][a-zA-Z0-9_]{0,62}$", name).  In Python "$" also
\* matches just before a single trailing newline.
SafeSchemaRe(name) ==
    LET core == IF Len(name) > 0 /\ name[Len(name)] = "\n"
                THEN SubSeq(name, 1, Len(name) - 1)
                ELSE name
    IN  /\ Len(core) >= 1
        /\ Len(core) <= 1 + MaxSchemaTail
        /\ core[1] \in Letters \cup {"_"}
        /\ \A i \in 2..Len(core) : core[i] \in Letters \cup DigitChars \cup {"_"}

\* Variant: every name is returned, none raises.
ValidateSchemaNameAny(name) == [ok |-> TRUE, value |-> name]

\* _validate_schema_name: returns the name, or raises ValueError.
ValidateSchemaName(name) ==
    IF SafeSchemaRe(name) THEN [ok |-> TRUE, value |-> name]
    ELSE [ok |-> FALSE, value |-> name]

-----------------------------------------------------------------------------
(* Requests                                                                *)

Requests == {1, 2}

PatientsColl == <<"api", "v1", "patients">>
PatientsItem == <<"api", "v1", "patients", "p1">>
AuditLogsColl == <<"api", "v1", "audit-logs">>
AuditLogsItem == <<"api", "v1", "audit-logs", "e1">>
Health == <<"health">>

\* The request lines (method and path) a client sends in this model.
RequestLines ==
    {<<"GET", Health>>,
     <<"GET", PatientsColl>>, <<"POST", PatientsColl>>, <<"HEAD", PatientsColl>>,
     <<"GET", PatientsItem>>, <<"PUT", PatientsItem>>, <<"DELETE", PatientsItem>>,
     <<"GET", AuditLogsColl>>,
     <<"PUT", AuditLogsItem>>, <<"DELETE", AuditLogsItem>>}

TenantA == <<"a", "-", "1">>
TenantB == <<"b", "-", "2">>
MalformedTenant == <<"a", ";">>

\* kind "none": no Authorization: Bearer header; "bad": decode_token raises;
\* "jwt": decode_token returns the payload (sub, tenant_id, role).
NoAuth == [kind |-> "none", sub |-> "", tenant_id |-> <<>>, role |-> ""]
BadToken == [kind |-> "bad", sub |-> "", tenant_id |-> <<>>, role |-> ""]
Jwt(sub, tid, role) == [kind |-> "jwt", sub |-> sub, tenant_id |-> tid, role |-> role]
Tokens ==
    {NoAuth, BadToken,
     Jwt("u1", TenantA, "admin"),
     Jwt("u2", TenantB, "clinician"),
     Jwt("u1", <<>>, "admin"),
     Jwt("u1", MalformedTenant, "admin"),
     Jwt("", TenantA, "admin")}

NoRequest == [path |-> <<>>, method |-> "", token |-> NoAuth]

StartsWith(path, prefix) ==
    /\ Len(path) >= Len(prefix)
    /\ SubSeq(path, 1, Len(prefix)) = prefix

-----------------------------------------------------------------------------
(* Tenant resolution (api/middleware/tenant.py)                            *)

PUBLIC_PREFIXES ==
    {<<"health">>, <<"docs">>, <<"redoc">>, <<"openapi.json">>,
     <<"api", "v1", "auth", "login">>, <<"api", "v1", "auth", "register">>,
     <<"fhir", "metadata">>}

IsPublic(path) == \E p \in PUBLIC_PREFIXES : StartsWith(path, p)

TenantPrefix == <<"t", "e", "n", "a", "n", "t", "_">>

\* Variant: the separators are left in place.
ReplaceHyphensKept(tid) == tid

\* tid.replace('-', '_')
ReplaceHyphens(tid) == [i \in 1..Len(tid) |-> IF tid[i] = "-" THEN "_" ELSE tid[i]]

\* f"tenant_{tid.replace('-', '_')}"
SchemaFor(tid) == TenantPrefix \o ReplaceHyphens(tid)

\* The value TenantMiddleware.dispatch passes to tenant_context.set.
ResolveTenant(path, token) ==
    IF IsPublic(path) THEN DEFAULT_TENANT_SCHEMA
    ELSE IF token.kind = "none" THEN DEFAULT_TENANT_SCHEMA
    ELSE IF token.kind = "bad" THEN DEFAULT_TENANT_SCHEMA
    ELSE IF token.tenant_id # <<>> THEN SchemaFor(token.tenant_id)
    ELSE DEFAULT_TENANT_SCHEMA

-----------------------------------------------------------------------------
(* Task contexts.  AuditMiddleware is added last (main.py), so it is the    *)
(* outermost middleware; each BaseHTTPMiddleware.call_next runs the rest   *)
(* of the stack in a new task, which gets a copy of the caller's context.  *)

Layers == {"audit", "tenant", "handler"}
ContextKeys == Requests \X Layers

\* Variant: one process-wide variable instead of a per-task context.
ContextOfShared(r, layer) == <<1, "audit">>

ContextOf(r, layer) == <<r, layer>>

-----------------------------------------------------------------------------
(* Audit classification (api/middleware/audit.py)                          *)

\* _PHI_PREFIXES, in source order.
PHI_PREFIXES ==
    << <<"api", "v1", "patients">>, <<"api", "v1", "encounters">>,
       <<"api", "v1", "orders">>, <<"api", "v1", "appointments">>,
       <<"api", "v1", "allergies">>, <<"api", "v1", "clinical-notes">>,
       <<"api", "v1", "observations">>, <<"api", "v1", "conditions">>,
       <<"api", "v1", "immunizations">>, <<"api", "v1", "consents">>,
       <<"fhir", "Patient">>, <<"fhir", "Observation">>,
       <<"fhir", "Condition">>, <<"fhir", "Encounter">> >>

\* Variant: exact match instead of startswith.
IsPhiExact(path) == \E i \in 1..Len(PHI_PREFIXES) : path = PHI_PREFIXES[i]

\* any(path.startswith(p) for p in _PHI_PREFIXES)
IsPhi(path) == \E i \in 1..Len(PHI_PREFIXES) : StartsWith(path, PHI_PREFIXES[i])

\* str.lower() on the segments that occur in PHI_PREFIXES.
Lower(seg) ==
    CASE seg = "Patient" -> "patient"
      [] seg = "Observation" -> "observation"
      [] seg = "Condition" -> "condition"
      [] seg = "Encounter" -> "encounter"
      [] OTHER -> seg

\* The loop over _PHI_PREFIXES in _write_audit: the first matching prefix's
\* last segment, lower-cased; "unknown" when none matches.
ResourceTypeOf(path) ==
    IF IsPhi(path)
    THEN LET i == CHOOSE j \in 1..Len(PHI_PREFIXES) :
                    /\ StartsWith(path, PHI_PREFIXES[j])
                    /\ \A k \in 1..(j - 1) : ~StartsWith(path, PHI_PREFIXES[k])
         IN  Lower(PHI_PREFIXES[i][Len(PHI_PREFIXES[i])])
    ELSE "unknown"

\* _METHOD_TO_ACTION.get(request.method, "other")
MethodToAction(method) ==
    CASE method = "GET" -> "read"
      [] method = "POST" -> "create"
      [] method = "PUT" -> "update"
      [] method = "PATCH" -> "update"
      [] method = "DELETE" -> "delete"
      [] OTHER -> "other"

-----------------------------------------------------------------------------
(* uuid.UUID(str): braces and hyphens are stripped and the rest must be    *)
(* hexadecimal digits (the fixed length of 32 digits is not modelled).     *)

HexChars == {"a", "b", "c", "d", "e", "f", "A", "B", "C", "D", "E", "F"} \cup DigitChars

IsUUID(s) ==
    /\ \E i \in 1..Len(s) : s[i] \in HexChars
    /\ \A i \in 1..Len(s) : s[i] \in HexChars \cup {"-", "{", "}"}

\* Subject claims are atomic: "u1" and "u2" stand for well-formed UUIDs.
IsUserUUID(sub) == sub \in {"u1", "u2"}

-----------------------------------------------------------------------------
(* Audit rows (models/audit_log.py) and the transactional write            *)
(* (core/audit.py)                                                         *)

\* One row of audit_logs.  schema is the namespace the writing session was
\* bound to by SET search_path; ip_address and user_agent are not modelled.
AuditRow(id, tenant_id, user_id, action, resource_type, resource_id, details, schema) ==
    [id |-> id, tenant_id |-> tenant_id, user_id |-> user_id, action |-> action,
     resource_type |-> resource_type, resource_id |-> resource_id,
     details |-> details, timestamp |-> now, schema |-> schema]

\* Variant: the early return is always taken.
RecordAuditSkipped(sess, id, tenant_id, user_id, action, resource_type, resource_id, details) ==
    sess

\* record_audit(db, ...): the INSERT joins the caller's unit of work.
RecordAudit(sess, id, tenant_id, user_id, action, resource_type, resource_id, details) ==
    IF ~AUDIT_LOG_ENABLED THEN sess
    ELSE [sess EXCEPT !.pending_audit = @ \cup
            {AuditRow(id, tenant_id, user_id, action, resource_type,
                      resource_id, details, sess.schema)}]

\* details or {}
EmptyDict == <<>>

\* Variant: the commit replaces the table's content.
CommitRowsReplacing(table, rows) == rows

\* The rows of a committed unit of work are appended to their table.
CommitRows(table, rows) == table \cup rows

NoSession == [open |-> FALSE, schema |-> <<>>, pending_rows |-> {}, pending_audit |-> {}]
NoOutcome == [kind |-> "none", status |-> 0, error |-> "none"]

-----------------------------------------------------------------------------
(* Routing (main.py, api/routes/patients.py, api/routes/audit_logs.py)     *)

RouteOf(path, method) ==
    CASE path = Health ->
            IF method = "GET" THEN "health_check" ELSE "405"
      [] path = PatientsColl ->
            IF method = "GET" THEN "list_patients"
            ELSE IF method = "POST" THEN "create_patient" ELSE "405"
      [] path = PatientsItem ->
            IF method = "GET" THEN "get_patient"
            ELSE IF method = "PUT" THEN "update_patient"
            ELSE IF method = "DELETE" THEN "delete_patient" ELSE "405"
      [] path = AuditLogsColl ->
            IF method = "GET" THEN "list_audit_logs" ELSE "405"
      [] OTHER -> "404"

\* get_current_user / require_role("admin") (core/security.py): the status of
\* the HTTPException raised, 0 when the dependency returns the principal.
AuthStatus(handler, token) ==
    IF token.kind \in {"none", "bad"} THEN 401
    ELSE IF token.sub = "" THEN 401
    ELSE IF handler = "list_audit_logs" /\ token.role # "admin" THEN 403
    ELSE 0

-----------------------------------------------------------------------------
\* Result of is_break_glass_active when no session matches.
None == 0
NoCheck == [user_id |-> "", patient_id |-> "", result |-> None, at |-> 0, returned |-> FALSE]

\* Threads of the worker pool that run synchronous code.
Threads == {1, 2}
NoScan == [pc |-> "idle", items |-> <<>>, user_id |-> "", patient_id |-> "", at |-> 0,
           result |-> None, error |-> "none"]

\* _fernet is None; a Fernet instance is modelled by its key.
NoKey == [kind |-> "none", secret |-> "", by |-> 0]

\* A str holding ciphertext: "", a Fernet token, or anything else.
EmptyText == [kind |-> "empty", key |-> NoKey, iv |-> 0, bytes |-> <<>>, intact |-> TRUE]
NoCipherCall ==
    [pc |-> "idle", op |-> "none", plaintext |-> <<>>, ciphertext |-> EmptyText,
     iv |-> 0, key |-> NoKey, text |-> <<>>, token |-> EmptyText]

\* An optional query parameter, Query(None): absent, or given with a value.
Absent == [given |-> FALSE, value |-> ""]
AbsentDate == [given |-> FALSE, value |-> 0]
Given(v) == [given |-> TRUE, value |-> v]
NoFilters ==
    [user_id |-> Absent, action |-> Absent, resource_type |-> Absent,
     resource_id |-> Absent, from_date |-> AbsentDate, to_date |-> AbsentDate]
NoQuery ==
    [returned |-> FALSE, principal |-> NoAuth, status |-> 0, filters |-> NoFilters,
     page |-> 1, page_size |-> 1, items |-> <<>>, total |-> 0, pages |-> 1]

\* No tenant claim has been taken through the derivation yet.
NoDerived == [claim |-> <<>>, pc |-> "idle", schema |-> <<>>, ok |-> TRUE, validations |-> 0]

ProcessStart(key) ==
    /\ pc = [r \in Requests |-> "idle"]
    /\ req = [r \in Requests |-> NoRequest]
    /\ tenant_context = [k \in ContextKeys |-> DEFAULT_TENANT_SCHEMA]
    /\ session = [r \in Requests |-> NoSession]
    /\ outcome = [r \in Requests |-> NoOutcome]
    /\ response = [r \in Requests |-> 0]
    /\ mw_audit = [r \in Requests |-> "none"]
    /\ resources = {}
    /\ audit_logs = {}
    /\ active_sessions = <<>>
    /\ bg_call = <<>>
    /\ next_uuid = 1
    /\ last_check = NoCheck
    /\ scan = [th \in Threads |-> NoScan]
    /\ encryption_key = key
    /\ fernet = NoKey
    /\ cipher = [th \in Threads |-> NoCipherCall]
    /\ encrypted = {}
    /\ next_call = 1
    /\ query = NoQuery
    /\ derived = NoDerived
    /\ now = 0

Init == ProcessStart(FIELD_ENCRYPTION_KEY)

\* AuditMiddleware.dispatch up to call_next: the request enters the stack.
\* Requests are numbered in their order of arrival.
AuditDispatchEnter(r, path, method, token) ==
    /\ pc[r] = "idle"
    /\ \A q \in Requests : q < r => pc[q] # "idle"
    /\ req' = [req EXCEPT ![r] = [path |-> path, method |-> method, token |-> token]]
    /\ tenant_context' = [tenant_context EXCEPT
            ![ContextOf(r, "tenant")] = tenant_context[ContextOf(r, "audit")]]
    /\ pc' = [pc EXCEPT ![r] = "tenant"]
    /\ UNCHANGED <<session, outcome, response, mw_audit, resources, audit_logs,
                   bgVars, cipherVars, queryVars, schemaVars, now>>

\* TenantMiddleware.dispatch up to call_next.
TenantDispatch(r) ==
    /\ pc[r] = "tenant"
    /\ LET schema == ResolveTenant(req[r].path, req[r].token)
           set == [tenant_context EXCEPT ![ContextOf(r, "tenant")] = schema]
       IN  tenant_context' = [set EXCEPT
               ![ContextOf(r, "handler")] = set[ContextOf(r, "tenant")]]
    /\ pc' = [pc EXCEPT ![r] = "route"]
    /\ UNCHANGED <<req, session, outcome, response, mw_audit, resources, audit_logs,
                   bgVars, cipherVars, queryVars, schemaVars, now>>

\* What the route handler does inside its unit of work (api/routes/patients.py,
\* api/routes/audit_logs.py).  svc is what the service layer finds ("ok",
\* "not_found", "conflict"); audit_ok is whether the INSERT of record_audit
\* succeeds.  The result is the session with its pending rows and the outcome.
HandlerBody(r, handler, sess, svc, audit_ok) ==
    LET tok == req[r].token
        tid == tok.tenant_id
        Exc(s, e) == [sess |-> s, out |-> [kind |-> "exception", status |-> 0, error |-> e]]
        Http(s, code) == [sess |-> s, out |-> [kind |-> "http_exception", status |-> code, error |-> "none"]]
        Ok(s, code) == [sess |-> s, out |-> [kind |-> "response", status |-> code, error |-> "none"]]
        Mutated(op, rid) ==
            [sess EXCEPT !.pending_rows = @ \cup
                {[resource_type |-> "patient", tenant_id |-> tid, op |-> op,
                  resource_id |-> rid, request |-> r, schema |-> sess.schema]}]
        Audited(s, action, rid) ==
            RecordAudit(s, <<"handler", r>>, tid, tok.sub, action, "patient", rid,
                        EmptyDict)
    IN  IF ~IsUUID(tid) THEN Exc(sess, "ValueError")
        ELSE CASE handler = "list_patients" -> Ok(sess, 200)
               [] handler = "list_audit_logs" -> Ok(sess, 200)
               [] handler = "get_patient" ->
                    IF ~audit_ok THEN Exc(sess, "AuditWriteError")
                    ELSE IF svc = "not_found" THEN Http(Audited(sess, "read", "p1"), 404)
                    ELSE Ok(Audited(sess, "read", "p1"), 200)
               [] handler = "create_patient" ->
                    IF svc = "conflict" THEN Http(sess, 409)
                    ELSE IF ~audit_ok THEN Exc(Mutated("create", "new"), "AuditWriteError")
                    ELSE Ok(Audited(Mutated("create", "new"), "create", "new"), 201)
               [] handler = "update_patient" ->
                    IF svc = "not_found" THEN Http(sess, 404)
                    ELSE IF ~audit_ok THEN Exc(Mutated("update", "p1"), "AuditWriteError")
                    ELSE Ok(Audited(Mutated("update", "p1"), "update", "p1"), 200)
               [] handler = "delete_patient" ->
                    IF svc = "not_found" THEN Http(sess, 404)
                    ELSE IF ~audit_ok THEN Exc(Mutated("delete", "p1"), "AuditWriteError")
                    ELSE Ok(Audited(Mutated("delete", "p1"), "delete", "p1"), 204)
               [] OTHER -> Exc(sess, "ValueError")

\* Variant: no rollback, the unit of work is committed whatever happened.
GetDbExitAlwaysCommit(out, commit_ok) == [commit |-> TRUE, out |-> out]

\* get_db after the yield: commit when the handler returned and the commit
\* succeeds; otherwise rollback and re-raise.
GetDbExit(out, commit_ok) ==
    IF out.kind = "response" /\ commit_ok THEN [commit |-> TRUE, out |-> out]
    ELSE IF out.kind = "response"
         THEN [commit |-> FALSE,
               out |-> [kind |-> "exception", status |-> 0, error |-> "CommitError"]]
    ELSE [commit |-> FALSE, out |-> out]

\* The router and the handler's dependencies: route lookup, get_current_user /
\* require_role, then get_db up to its yield.
ResolveRoute(r) ==
    /\ pc[r] = "route"
    /\ LET handler == RouteOf(req[r].path, req[r].method)
           auth == AuthStatus(handler, req[r].token)
           schema == ValidateSchemaName(tenant_context[ContextOf(r, "handler")])
           Reply(code) ==
               /\ outcome' = [outcome EXCEPT ![r] =
                      [kind |-> "http_exception", status |-> code, error |-> "none"]]
               /\ pc' = [pc EXCEPT ![r] = "audit_exit"]
               /\ UNCHANGED session
       IN  CASE handler = "404" -> Reply(404)
             [] handler = "405" -> Reply(405)
             [] handler = "health_check" ->
                    /\ outcome' = [outcome EXCEPT ![r] =
                           [kind |-> "response", status |-> 200, error |-> "none"]]
                    /\ pc' = [pc EXCEPT ![r] = "audit_exit"]
                    /\ UNCHANGED session
             [] OTHER ->
                    IF auth # 0 THEN Reply(auth)
                    ELSE IF ~schema.ok
                    THEN /\ outcome' = [outcome EXCEPT ![r] =
                                [kind |-> "exception", status |-> 0, error |-> "ValueError"]]
                         /\ pc' = [pc EXCEPT ![r] = "audit_exit"]
                         /\ UNCHANGED session
                    ELSE /\ session' = [session EXCEPT ![r] =
                                [open |-> TRUE, schema |-> schema.value,
                                 pending_rows |-> {}, pending_audit |-> {}]]
                         /\ pc' = [pc EXCEPT ![r] = "handler"]
                         /\ UNCHANGED outcome
    /\ UNCHANGED <<req, tenant_context, response, mw_audit, resources, audit_logs,
                   bgVars, cipherVars, queryVars, schemaVars, now>>

\* The route handler runs to its return or to the exception it raises.
Handler(r, svc, audit_ok) ==
    /\ pc[r] = "handler"
    /\ LET res == HandlerBody(r, RouteOf(req[r].path, req[r].method),
                              session[r], svc, audit_ok)
       IN  /\ session' = [session EXCEPT ![r] = res.sess]
           /\ outcome' = [outcome EXCEPT ![r] = res.out]
    /\ pc' = [pc EXCEPT ![r] = "get_db_exit"]
    /\ UNCHANGED <<req, tenant_context, response, mw_audit, resources, audit_logs,
                   bgVars, cipherVars, queryVars, schemaVars, now>>

\* get_db resumes after its yield and closes the session.
GetDbTeardown(r, commit_ok) ==
    /\ pc[r] = "get_db_exit"
    /\ LET x == GetDbExit(outcome[r], commit_ok)
       IN  /\ resources' = IF x.commit THEN CommitRows(resources, session[r].pending_rows)
                           ELSE resources
           /\ audit_logs' = IF x.commit THEN CommitRows(audit_logs, session[r].pending_audit)
                            ELSE audit_logs
           /\ outcome' = [outcome EXCEPT ![r] = x.out]
    /\ session' = [session EXCEPT ![r] = [@ EXCEPT !.open = FALSE,
                        !.pending_rows = {}, !.pending_audit = {}]]
    /\ pc' = [pc EXCEPT ![r] = "audit_exit"]
    /\ UNCHANGED <<req, tenant_context, response, mw_audit,
                   bgVars, cipherVars, queryVars, schemaVars, now>>

\* AuditMiddleware._write_audit: "skipped" for its early returns, "failed"
\* when it raises, "written" with the row when its session commits.
WriteAudit(r, status, write_ok) ==
    LET tok == req[r].token
        schema == ValidateSchemaName(tenant_context[ContextOf(r, "audit")])
        Result(kind, rows) == [kind |-> kind, rows |-> rows]
    IN  IF tok.kind = "none" THEN Result("skipped", {})
        ELSE IF tok.kind = "bad" THEN Result("skipped", {})
        ELSE IF tok.sub = "" \/ tok.tenant_id = <<>> THEN Result("skipped", {})
        ELSE IF ~schema.ok THEN Result("failed", {})
        ELSE IF ~IsUUID(tok.tenant_id) THEN Result("failed", {})
        ELSE IF ~IsUserUUID(tok.sub) THEN Result("failed", {})
        ELSE IF ~write_ok THEN Result("failed", {})
        ELSE Result("written",
                {AuditRow(<<"middleware", r>>, tok.tenant_id, tok.sub,
                          MethodToAction(req[r].method), ResourceTypeOf(req[r].path),
                          "none",
                          [path |-> req[r].path, method |-> req[r].method,
                           status_code |-> status],
                          schema.value)})

\* Variant: a failed best-effort write turns the response into a 500.
DispatchResponseRaising(status, written) == IF written = "failed" THEN 500 ELSE status

\* The status AuditMiddleware.dispatch returns after its best-effort write.
DispatchResponse(status, written) == status

\* AuditMiddleware.dispatch after call_next.  An exception raised below
\* propagates through call_next and is answered 500 outside the middleware.
AuditDispatchExit(r, write_ok) ==
    /\ pc[r] = "audit_exit"
    /\ IF outcome[r].kind = "exception"
       THEN /\ response' = [response EXCEPT ![r] = 500]
            /\ UNCHANGED <<mw_audit, audit_logs>>
       ELSE IF ~AUDIT_LOG_ENABLED \/ ~IsPhi(req[r].path)
       THEN /\ response' = [response EXCEPT ![r] = outcome[r].status]
            /\ UNCHANGED <<mw_audit, audit_logs>>
       ELSE LET w == WriteAudit(r, outcome[r].status, write_ok)
            IN  /\ mw_audit' = [mw_audit EXCEPT ![r] = w.kind]
                /\ audit_logs' = CommitRows(audit_logs, w.rows)
                /\ response' = [response EXCEPT ![r] =
                        DispatchResponse(outcome[r].status, w.kind)]
    /\ pc' = [pc EXCEPT ![r] = "done"]
    /\ UNCHANGED <<req, tenant_context, session, outcome, resources,
                   bgVars, cipherVars, queryVars, schemaVars, now>>

Next ==
    \/ \E r \in Requests, line \in RequestLines, token \in Tokens :
            AuditDispatchEnter(r, line[2], line[1], token)
    \/ \E r \in Requests : TenantDispatch(r)
    \/ \E r \in Requests : ResolveRoute(r)
    \/ \E r \in Requests, svc \in {"ok", "not_found", "conflict"}, audit_ok \in BOOLEAN :
            Handler(r, svc, audit_ok)
    \/ \E r \in Requests, commit_ok \in BOOLEAN : GetDbTeardown(r, commit_ok)
    \/ \E r \in Requests, write_ok \in BOOLEAN : AuditDispatchExit(r, write_ok)

Spec == Init /\ [][Next]_vars

-----------------------------------------------------------------------------
(* Break-glass access manager (core/break_glass.py)                        *)

BREAK_GLASS_DEFAULT_MINUTES == 60
BREAK_GLASS_MAX_MINUTES == 240
REAUTH_INTERVAL_MINUTES == 30

\* Bounds of the break-glass model: uuid4 values drawn, calls in flight.
MaxUuid == 2
MaxInFlight == 1

\* Instants of the wall clock the model steps through.
Instants == {0, 60, 61}

Principals ==
    {Jwt("u1", TenantA, "admin"), Jwt("u2", TenantB, "clinician")}
Emergency == "cardiac arrest code team"

\* The duration_minutes argument: omitted, or given.
DefaultDuration == [given |-> FALSE, minutes |-> 0]
Minutes(m) == [given |-> TRUE, minutes |-> m]

\* The activate calls the model makes: the default duration, the maximum, one
\* minute over it, zero minutes, an empty reason, and a second clinician of
\* another tenant.
ActivationRequests ==
    LET u1 == Jwt("u1", TenantA, "admin")
        u2 == Jwt("u2", TenantB, "clinician")
        Call(principal, reason, requested) ==
            [principal |-> principal, patient_id |-> "p1", reason |-> reason,
             requested |-> requested]
    IN  {Call(u1, Emergency, DefaultDuration),
         Call(u1, Emergency, Minutes(240)),
         Call(u1, Emergency, Minutes(241)),
         Call(u1, Emergency, Minutes(0)),
         Call(u1, "", DefaultDuration),
         Call(u2, Emergency, DefaultDuration)}

\* The (user_id, patient_id) pairs is_break_glass_active is asked about.
CheckedPairs == {<<"u1", "p1">>, <<"u2", "p1">>, <<"u1", "p2">>}

DurationMinutes(d) == IF d.given THEN d.minutes ELSE BREAK_GLASS_DEFAULT_MINUTES

\* datetime.isoformat() / datetime.fromisoformat(): hours and minutes fields.
IsoFormat(t) == [hh |-> t \div 60, mm |-> t % 60]
FromIsoFormat(iso) == iso.hh * 60 + iso.mm

\* Variant: no duration is refused.
ExceedsMaximumNever(minutes) == FALSE

\* duration_minutes > BREAK_GLASS_MAX_MINUTES
ExceedsMaximum(minutes) == minutes > BREAK_GLASS_MAX_MINUTES

\* Variant: the duration is clamped to the default instead of used as given.
ExpiresAtClamped(t, minutes) ==
    t + (IF minutes > BREAK_GLASS_DEFAULT_MINUTES THEN BREAK_GLASS_DEFAULT_MINUTES ELSE minutes)

\* now + timedelta(minutes=duration_minutes)
ExpiresAt(t, minutes) == t + minutes

\* A finished or running call of activate_break_glass / deactivate_break_glass
\* together with the unit of work get_db gave it.
BgCall(op, principal, requested, session_id, schema, pending, out) ==
    [op |-> op, principal |-> principal, requested |-> requested,
     session_id |-> session_id, schema |-> schema, pending_audit |-> pending, out |-> out]

BgSession(principal) ==
    [open |-> TRUE, schema |-> ResolveTenant(PatientsColl, principal),
     pending_rows |-> {}, pending_audit |-> {}]

\* activate_break_glass(reason, patient_id, duration_minutes, current_user, db)
ActivateBreakGlass(principal, patient, reason, requested, audit_ok) ==
    /\ Len(bg_call) < MaxInFlight
    /\ LET minutes == DurationMinutes(requested)
           sess == BgSession(principal)
           sid == next_uuid
           grant == [session_id |-> sid,
                     user_id |-> principal.sub,
                     tenant_id |-> principal.tenant_id,
                     patient_id |-> patient,
                     reason |-> reason,
                     activated_at |-> IsoFormat(now),
                     expires_at |-> IsoFormat(ExpiresAt(now, minutes)),
                     last_reauth |-> IsoFormat(now)]
           audited == RecordAudit(sess, <<"break_glass_activate", sid>>, principal.tenant_id,
                          principal.sub, "break_glass_activate", "patient", patient,
                          [session_id |-> sid, reason |-> reason,
                           duration_minutes |-> minutes])
       IN  IF ExceedsMaximum(minutes)
           THEN /\ bg_call' = Append(bg_call,
                        BgCall("activate", principal, requested, None, sess.schema, {},
                               [kind |-> "http_exception", status |-> 400, error |-> "none"]))
                /\ UNCHANGED <<active_sessions, next_uuid>>
           ELSE IF ~IsUserUUID(principal.sub) \/ ~IsUUID(principal.tenant_id)
           THEN /\ bg_call' = Append(bg_call,
                        BgCall("activate", principal, requested, None, sess.schema, {},
                               [kind |-> "exception", status |-> 0, error |-> "ValueError"]))
                /\ UNCHANGED <<active_sessions, next_uuid>>
           ELSE /\ next_uuid <= MaxUuid
                /\ active_sessions' = Append(active_sessions, grant)
                /\ next_uuid' = next_uuid + 1
                /\ bg_call' = Append(bg_call,
                        IF audit_ok
                        THEN BgCall("activate", principal, requested, sid, sess.schema,
                                    audited.pending_audit,
                                    [kind |-> "response", status |-> 200, error |-> "none"])
                        ELSE BgCall("activate", principal, requested, sid, sess.schema, {},
                                    [kind |-> "exception", status |-> 0,
                                     error |-> "AuditWriteError"]))
    /\ last_check' = NoCheck
    /\ UNCHANGED <<reqVars, cipherVars, queryVars, schemaVars, resources, audit_logs, scan, now>>

\* Variant: only the first session of the snapshot is examined.
ScanSessionsFirstOnly(items, store, user_id, patient_id, t) ==
    IF items = <<>> THEN [result |-> None, store |-> store]
    ELSE LET s == Head(items)
         IN  IF FromIsoFormat(s.expires_at) < t
             THEN [result |-> None,
                   store |-> SelectSeq(store, LAMBDA x : x.session_id # s.session_id)]
             ELSE IF s.user_id = user_id /\ s.patient_id = patient_id
             THEN [result |-> s.session_id, store |-> store]
             ELSE [result |-> None, store |-> store]

\* Variant: an expired session is skipped but left in the store.
RECURSIVE ScanSessionsKeeping(_, _, _, _, _)
ScanSessionsKeeping(items, store, user_id, patient_id, t) ==
    IF items = <<>> THEN [result |-> None, store |-> store]
    ELSE LET s == Head(items)
         IN  IF FromIsoFormat(s.expires_at) < t
             THEN ScanSessionsKeeping(Tail(items), store, user_id, patient_id, t)
             ELSE IF s.user_id = user_id /\ s.patient_id = patient_id
             THEN [result |-> s.session_id, store |-> store]
             ELSE ScanSessionsKeeping(Tail(items), store, user_id, patient_id, t)

\* Variant: the session found has its last_reauth set to the time of the call.
RECURSIVE ScanSessionsTouching(_, _, _, _, _)
ScanSessionsTouching(items, store, user_id, patient_id, t) ==
    IF items = <<>> THEN [result |-> None, store |-> store]
    ELSE LET s == Head(items)
         IN  IF FromIsoFormat(s.expires_at) < t
             THEN ScanSessionsTouching(Tail(items),
                               SelectSeq(store, LAMBDA x : x.session_id # s.session_id),
                               user_id, patient_id, t)
             ELSE IF s.user_id = user_id /\ s.patient_id = patient_id
             THEN [result |-> s.session_id,
                   store |-> [i \in 1..Len(store) |->
                                 IF store[i].session_id = s.session_id
                                 THEN [store[i] EXCEPT !.last_reauth = IsoFormat(t)]
                                 ELSE store[i]]]
             ELSE ScanSessionsTouching(Tail(items), store, user_id, patient_id, t)

\* The loop of is_break_glass_active over list(_active_sessions.items()):
\* items is what is left of the snapshot, store the dict as it is now.
RECURSIVE ScanSessions(_, _, _, _, _)
ScanSessions(items, store, user_id, patient_id, t) ==
    IF items = <<>> THEN [result |-> None, store |-> store]
    ELSE LET s == Head(items)
         IN  IF FromIsoFormat(s.expires_at) < t
             THEN ScanSessions(Tail(items),
                               SelectSeq(store, LAMBDA x : x.session_id # s.session_id),
                               user_id, patient_id, t)
             ELSE IF s.user_id = user_id /\ s.patient_id = patient_id
             THEN [result |-> s.session_id, store |-> store]
             ELSE ScanSessions(Tail(items), store, user_id, patient_id, t)

\* is_break_glass_active(user_id, patient_id)
IsBreakGlassActive(user_id, patient_id) ==
    /\ LET scanned == ScanSessions(active_sessions, active_sessions, user_id, patient_id, now)
       IN  /\ active_sessions' = scanned.store
           /\ last_check' = [user_id |-> user_id, patient_id |-> patient_id,
                             result |-> scanned.result, at |-> now, returned |-> TRUE]
    /\ UNCHANGED <<reqVars, cipherVars, queryVars, schemaVars, resources, audit_logs, bg_call, next_uuid, scan, now>>

\* deactivate_break_glass(session_id, current_user, db)
DeactivateBreakGlass(session_id, principal, audit_ok) ==
    /\ Len(bg_call) < MaxInFlight
    /\ LET sess == BgSession(principal)
           found == {i \in 1..Len(active_sessions) :
                        active_sessions[i].session_id = session_id}
           popped == SelectSeq(active_sessions, LAMBDA x : x.session_id # session_id)
       IN  IF found = {}
           THEN /\ bg_call' = Append(bg_call,
                        BgCall("deactivate", principal, DefaultDuration, session_id,
                               sess.schema, {},
                               [kind |-> "response", status |-> 200, error |-> "none"]))
                /\ UNCHANGED <<active_sessions, next_uuid>>
           ELSE LET g == active_sessions[CHOOSE i \in found : TRUE]
                    audited == RecordAudit(sess, <<"break_glass_deactivate", session_id>>,
                                   principal.tenant_id, principal.sub,
                                   "break_glass_deactivate", "patient", g.patient_id,
                                   [session_id |-> session_id])
                IN  /\ active_sessions' = popped
                    /\ bg_call' = Append(bg_call,
                          IF ~IsUUID(principal.tenant_id) \/ ~IsUserUUID(principal.sub)
                          THEN BgCall("deactivate", principal, DefaultDuration,
                                      session_id, sess.schema, {},
                                      [kind |-> "exception", status |-> 0,
                                       error |-> "ValueError"])
                          ELSE IF ~audit_ok
                          THEN BgCall("deactivate", principal, DefaultDuration,
                                      session_id, sess.schema, {},
                                      [kind |-> "exception", status |-> 0,
                                       error |-> "AuditWriteError"])
                          ELSE BgCall("deactivate", principal, DefaultDuration,
                                      session_id, sess.schema, audited.pending_audit,
                                      [kind |-> "response", status |-> 200,
                                       error |-> "none"]))
                    /\ UNCHANGED next_uuid
    /\ last_check' = NoCheck
    /\ UNCHANGED <<reqVars, cipherVars, queryVars, schemaVars, resources, audit_logs, scan, now>>

\* get_db resumes after the yield of a break-glass call's unit of work.
BgTeardown(i, commit_ok) ==
    /\ i \in 1..Len(bg_call)
    /\ LET x == GetDbExit(bg_call[i].out, commit_ok)
       IN  audit_logs' = IF x.commit THEN CommitRows(audit_logs, bg_call[i].pending_audit)
                         ELSE audit_logs
    /\ bg_call' = [j \in 1..(Len(bg_call) - 1) |->
                      IF j < i THEN bg_call[j] ELSE bg_call[j + 1]]
    /\ last_check' = NoCheck
    /\ UNCHANGED <<reqVars, cipherVars, queryVars, schemaVars, resources, active_sessions, next_uuid, scan, now>>

\* The wall clock advances to a later instant.
Tick(t) ==
    /\ t > now
    /\ now' = t
    /\ last_check' = NoCheck
    /\ UNCHANGED <<reqVars, cipherVars, queryVars, schemaVars, resources, audit_logs, active_sessions, bg_call, next_uuid,
                   scan>>

NextBG ==
    \/ \E a \in ActivationRequests, audit_ok \in BOOLEAN :
            ActivateBreakGlass(a.principal, a.patient_id, a.reason, a.requested, audit_ok)
    \/ \E pair \in CheckedPairs : IsBreakGlassActive(pair[1], pair[2])
    \/ \E sid \in 1..MaxUuid, principal \in Principals, audit_ok \in BOOLEAN :
            DeactivateBreakGlass(sid, principal, audit_ok)
    \/ \E i \in 1..MaxInFlight, commit_ok \in BOOLEAN : BgTeardown(i, commit_ok)
    \/ \E t \in Instants : Tick(t)

SpecBG == Init /\ [][NextBG]_vars

-----------------------------------------------------------------------------
(* is_break_glass_active run by threads: the loop taken one iteration at a  *)
(* time, so that other calls run between the snapshot and a deletion.       *)

\* Lines 90-91: the clock is read and list(_active_sessions.items()) taken.
ScanBegin(th, user_id, patient_id) ==
    /\ scan[th].pc # "loop"
    /\ scan' = [scan EXCEPT ![th] =
                   [pc |-> "loop", items |-> active_sessions, user_id |-> user_id,
                    patient_id |-> patient_id, at |-> now, result |-> None,
                    error |-> "none"]]
    /\ UNCHANGED <<reqVars, cipherVars, queryVars, schemaVars, resources, audit_logs, active_sessions, bg_call, next_uuid,
                   last_check, now>>

\* del _active_sessions[session_id]: KeyError when the key is gone.
DeleteSession(store, sid) ==
    IF \E i \in 1..Len(store) : store[i].session_id = sid
    THEN [raised |-> FALSE, store |-> SelectSeq(store, LAMBDA x : x.session_id # sid)]
    ELSE [raised |-> TRUE, store |-> store]

\* One iteration of the loop (lines 91-97), or its end (line 98).
ScanIter(th) ==
    /\ scan[th].pc = "loop"
    /\ LET c == scan[th]
           Finish(result, error) ==
               [pc |-> "done", items |-> <<>>, user_id |-> c.user_id,
                patient_id |-> c.patient_id, at |-> c.at, result |-> result,
                error |-> error]
       IN  IF c.items = <<>>
           THEN /\ scan' = [scan EXCEPT ![th] = Finish(None, "none")]
                /\ UNCHANGED active_sessions
           ELSE LET s == Head(c.items)
                    deleted == DeleteSession(active_sessions, s.session_id)
                IN  IF FromIsoFormat(s.expires_at) < c.at
                    THEN /\ active_sessions' = deleted.store
                         /\ scan' = [scan EXCEPT ![th] =
                                IF deleted.raised THEN Finish(None, "KeyError")
                                ELSE [c EXCEPT !.items = Tail(c.items)]]
                    ELSE IF s.user_id = c.user_id /\ s.patient_id = c.patient_id
                    THEN /\ scan' = [scan EXCEPT ![th] = Finish(s.session_id, "none")]
                         /\ UNCHANGED active_sessions
                    ELSE /\ scan' = [scan EXCEPT ![th] = [c EXCEPT !.items = Tail(c.items)]]
                         /\ UNCHANGED active_sessions
    /\ UNCHANGED <<reqVars, cipherVars, queryVars, schemaVars, resources, audit_logs, bg_call, next_uuid, last_check, now>>

\* The calls the threaded model makes.
RaceRequests ==
    {a \in ActivationRequests :
        a.principal.sub = "u1" /\ a.reason # "" /\ a.requested = DefaultDuration}
RacePairs == {<<"u1", "p1">>, <<"u2", "p1">>}
RaceInstants == {61}

NextRace ==
    \/ \E a \in RaceRequests :
            ActivateBreakGlass(a.principal, a.patient_id, a.reason, a.requested, TRUE)
    \/ \E sid \in 1..MaxUuid, a \in RaceRequests :
            DeactivateBreakGlass(sid, a.principal, TRUE)
    \/ \E i \in 1..MaxInFlight : BgTeardown(i, TRUE)
    \/ \E t \in RaceInstants : Tick(t)
    \/ \E th \in Threads, pair \in RacePairs : ScanBegin(th, pair[1], pair[2])
    \/ \E th \in Threads : ScanIter(th)

SpecRace == Init /\ [][NextRace]_vars

-----------------------------------------------------------------------------
(* Field cipher (utils/encryption.py)                                      *)

\* Values of FIELD_ENCRYPTION_KEY: unset, a passphrase, a 44-character
\* Fernet key.
FieldEncryptionKeys == {"", "passphrase", "fernet-key-of-44-characters"}
IsFernetKey(key) == key = "fernet-key-of-44-characters"

\* Plaintexts: texts over "a" and over "e'", which stands for e with an acute
\* accent, a character of two bytes in UTF-8.
Plaintexts == {<<>>, <<"a">>, <<"e'", "a">>}

\* str.encode(): UTF-8.
RECURSIVE Encode(_)
Encode(text) ==
    IF text = <<>> THEN <<>>
    ELSE (IF Head(text) = "a" THEN <<97>> ELSE <<195, 169>>) \o Encode(Tail(text))

\* Variant: every byte is taken for a character of its own (Latin-1).
RECURSIVE DecodeBytewise(_)
DecodeBytewise(bytes) ==
    IF bytes = <<>> THEN [ok |-> TRUE, text |-> <<>>]
    ELSE [ok |-> TRUE,
          text |-> <<IF Head(bytes) = 97 THEN "a" ELSE "e'">>
                       \o DecodeBytewise(Tail(bytes)).text]

\* bytes.decode(): UTF-8, UnicodeDecodeError on a malformed sequence.
RECURSIVE Decode(_)
Decode(bytes) ==
    IF bytes = <<>> THEN [ok |-> TRUE, text |-> <<>>]
    ELSE IF Head(bytes) = 97
    THEN LET rest == Decode(Tail(bytes))
         IN  [ok |-> rest.ok, text |-> <<"a">> \o rest.text]
    ELSE IF Head(bytes) = 195 /\ Len(bytes) >= 2 /\ bytes[2] = 169
    THEN LET rest == Decode(Tail(Tail(bytes)))
         IN  [ok |-> rest.ok, text |-> <<"e'">> \o rest.text]
    ELSE [ok |-> FALSE, text |-> <<>>]

\* Fernet.generate_key(): 32 random bytes, a key no other call gets.
GenerateKey(th) == [kind |-> "generated", secret |-> "", by |-> th]

\* Lines 35-40: the key as given, or one derived from the passphrase.
FernetOf(key) ==
    IF IsFernetKey(key) THEN [kind |-> "fernet", secret |-> key, by |-> 0]
    ELSE [kind |-> "derived", secret |-> key, by |-> 0]

\* Variant: the initialisation vector is the same for every call.
FixedIv(n) == 0

\* os.urandom(16) inside Fernet.encrypt: a value no other call gets.
RandomIv(n) == n

\* Fernet.encrypt, then bytes.decode() of the token.
FernetEncrypt(f, iv, bytes) ==
    [kind |-> "token", key |-> f, iv |-> iv, bytes |-> bytes, intact |-> TRUE]

\* Fernet.decrypt: InvalidToken unless the token was made under this key and
\* is intact.
FernetDecrypt(f, c) ==
    IF c.kind = "token" /\ c.intact /\ c.key = f
    THEN [ok |-> TRUE, bytes |-> c.bytes]
    ELSE [ok |-> FALSE, bytes |-> <<>>]

\* Ciphertexts a caller may hand to decrypt_value: "", what encrypt_value
\* returned, the same with a flipped bit, text that is no token, and a token
\* made by another deployment under another key.
Corrupted(c) == [c EXCEPT !.intact = FALSE]
Garbage == [kind |-> "garbage", key |-> NoKey, iv |-> 0, bytes |-> <<>>, intact |-> FALSE]
ForeignToken ==
    FernetEncrypt([kind |-> "derived", secret |-> "another passphrase", by |-> 0], 0,
                  Encode(<<"a">>))
Ciphertexts ==
    {EmptyText, Garbage, ForeignToken}
        \cup {e.ciphertext : e \in encrypted}
        \cup {Corrupted(e.ciphertext) : e \in {x \in encrypted : x.ciphertext.kind = "token"}}

MaxEncryptions == 2

\* encrypt_value(plaintext), lines 44-48 up to the call of _get_fernet.
EncryptValue(th, plaintext) ==
    /\ cipher[th].pc \in {"idle", "done"}
    /\ next_call <= MaxEncryptions
    /\ next_call' = next_call + 1
    /\ IF plaintext = <<>>
       THEN /\ cipher' = [cipher EXCEPT ![th] =
                   [NoCipherCall EXCEPT !.pc = "done", !.op = "encrypt"]]
            /\ encrypted' = encrypted \cup
                   {[call |-> next_call, plaintext |-> plaintext, ciphertext |-> EmptyText]}
       ELSE /\ cipher' = [cipher EXCEPT ![th] =
                   [NoCipherCall EXCEPT !.pc = "get_fernet", !.op = "encrypt",
                                        !.plaintext = plaintext, !.iv = next_call]]
            /\ UNCHANGED encrypted
    /\ UNCHANGED <<reqVars, resources, audit_logs, bgVars, queryVars, schemaVars, encryption_key, fernet, now>>

\* decrypt_value(ciphertext), lines 52-57 up to the call of _get_fernet.
DecryptValue(th, ciphertext) ==
    /\ cipher[th].pc \in {"idle", "done"}
    /\ cipher' = [cipher EXCEPT ![th] =
           IF ciphertext.kind = "empty"
           THEN [NoCipherCall EXCEPT !.pc = "done", !.op = "decrypt"]
           ELSE [NoCipherCall EXCEPT !.pc = "get_fernet", !.op = "decrypt",
                                     !.ciphertext = ciphertext]]
    /\ UNCHANGED <<reqVars, resources, audit_logs, bgVars, queryVars, schemaVars, encryption_key, fernet,
                   encrypted, next_call, now>>

\* _get_fernet, lines 24-31: return at once when _fernet is set, else take
\* the configured key or generate one.
GetFernetCheck(th) ==
    /\ cipher[th].pc = "get_fernet"
    /\ cipher' = [cipher EXCEPT ![th] =
           IF fernet # NoKey THEN [@ EXCEPT !.pc = "return"]
           ELSE [@ EXCEPT !.pc = "assign",
                          !.key = IF encryption_key = "" THEN GenerateKey(th)
                                  ELSE FernetOf(encryption_key)]]
    /\ UNCHANGED <<reqVars, resources, audit_logs, bgVars, queryVars, schemaVars, encryption_key, fernet,
                   encrypted, next_call, now>>

\* _get_fernet, lines 35-40: the global is assigned.
GetFernetAssign(th) ==
    /\ cipher[th].pc = "assign"
    /\ fernet' = cipher[th].key
    /\ cipher' = [cipher EXCEPT ![th].pc = "return"]
    /\ UNCHANGED <<reqVars, resources, audit_logs, bgVars, queryVars, schemaVars, encryption_key, encrypted,
                   next_call, now>>

\* _get_fernet returns the global (lines 25, 41) and the caller uses it:
\* line 49 of encrypt_value, lines 58-60 of decrypt_value.
UseFernet(th) ==
    /\ cipher[th].pc = "return"
    /\ LET c == cipher[th]
           f == fernet
           token == FernetEncrypt(f, RandomIv(c.iv), Encode(c.plaintext))
           opened == FernetDecrypt(f, c.ciphertext)
           decoded == Decode(opened.bytes)
       IN  IF c.op = "encrypt"
           THEN /\ cipher' = [cipher EXCEPT ![th] =
                       [c EXCEPT !.pc = "done", !.key = f, !.token = token]]
                /\ encrypted' = encrypted \cup
                       {[call |-> c.iv, plaintext |-> c.plaintext, ciphertext |-> token]}
           ELSE /\ cipher' = [cipher EXCEPT ![th] =
                       [c EXCEPT !.pc = "done", !.key = f,
                                 !.text = IF opened.ok /\ decoded.ok THEN decoded.text
                                          ELSE <<>>]]
                /\ UNCHANGED encrypted
    /\ UNCHANGED <<reqVars, resources, audit_logs, bgVars, queryVars, schemaVars, encryption_key, fernet,
                   next_call, now>>

NextCipher ==
    \/ \E th \in Threads, plaintext \in Plaintexts : EncryptValue(th, plaintext)
    \/ \E th \in Threads, ciphertext \in Ciphertexts : DecryptValue(th, ciphertext)
    \/ \E th \in Threads : GetFernetCheck(th)
    \/ \E th \in Threads : GetFernetAssign(th)
    \/ \E th \in Threads : UseFernet(th)

InitCipher == \E key \in FieldEncryptionKeys : ProcessStart(key)

SpecCipher == InitCipher /\ [][NextCipher]_vars

-----------------------------------------------------------------------------
(* Audit log query (api/routes/audit_logs.py)                              *)

\* Bound of the query model: rows in the ledger.
MaxEntries == 3

\* The units of work that fill the ledger: who did what to which resource.
QueryWriters ==
    LET Did(principal, action, resource_type, resource_id) ==
            [principal |-> principal, action |-> action,
             resource_type |-> resource_type, resource_id |-> resource_id]
    IN  {Did(Jwt("u1", TenantA, "admin"), "read", "patient", "p1"),
         Did(Jwt("u1", TenantA, "admin"), "update", "patient", "p2"),
         Did(Jwt("u3", TenantA, "clinician"), "read", "encounter", "e1"),
         Did(Jwt("u2", TenantB, "clinician"), "read", "patient", "p1")}

\* Who calls GET /audit-logs: an administrator of each tenant, or a clinician.
QueryAdmins == {Jwt("u1", TenantA, "admin"), Jwt("u4", TenantB, "admin")}
QueryClinicians == {Jwt("u2", TenantB, "clinician")}

\* The query parameters a caller sends.  action= and resource_type= may be
\* sent with an empty value.
QueryFilters ==
    [user_id : {Absent, Given("u1")},
     action : {Absent, Given("read"), Given("")},
     resource_type : {Absent, Given("patient")},
     resource_id : {Absent, Given("p1")},
     from_date : {AbsentDate, Given(60)},
     to_date : {AbsentDate, Given(60)}]

\* page and page_size (both validated ge=1 by FastAPI).
QueryPages == {<<1, 2>>, <<2, 1>>}

\* A handler's unit of work that calls record_audit and is committed by
\* get_db.  The id stands for the row's uuid4.
RecordAuditCommitted(principal, action, resource_type, resource_id) ==
    /\ Cardinality(audit_logs) < MaxEntries
    /\ LET sess == RecordAudit(BgSession(principal),
                       <<"entry", Cardinality(audit_logs) + 1>>,
                       principal.tenant_id, principal.sub, action, resource_type,
                       resource_id, EmptyDict)
       IN  audit_logs' = CommitRows(audit_logs, sess.pending_audit)
    /\ query' = NoQuery
    /\ UNCHANGED <<reqVars, bgVars, cipherVars, schemaVars, resources, now>>

\* A str parameter is applied when it is truthy: given and not empty.  A UUID
\* or datetime parameter is truthy whenever it is given.
TruthyStr(f) == f.given /\ f.value # ""
TruthyObj(f) == f.given

\* Variant: the tenant condition is left out of the base statement.
TenantScopedAll(rows, tenant_id) == rows

\* Line 45: select(AuditLog).where(AuditLog.tenant_id == tenant_id).  The
\* tables exist in the public schema only (init_db), so under every
\* search_path the name audit_logs is the one table all tenants share.
TenantScoped(rows, tenant_id) == {e \in rows : e.tenant_id = tenant_id}

\* Lines 47-58: each where() that is added narrows the statement.
WhereFilters(rows, f) ==
    {e \in rows :
        /\ TruthyObj(f.user_id) => e.user_id = f.user_id.value
        /\ TruthyStr(f.action) => e.action = f.action.value
        /\ TruthyStr(f.resource_type) => e.resource_type = f.resource_type.value
        /\ TruthyObj(f.resource_id) => e.resource_id = f.resource_id.value
        /\ TruthyObj(f.from_date) => e.timestamp >= f.from_date.value
        /\ TruthyObj(f.to_date) => e.timestamp <= f.to_date.value}

\* order_by(AuditLog.timestamp.desc()): the orders the database may return
\* the rows in; rows of equal timestamp come in any order.
OrderByTimestampDesc(rows) ==
    LET n == Cardinality(rows)
    IN  {s \in [1..n -> rows] :
            /\ \A i, j \in 1..n : i < j => s[i] # s[j] /\ s[i].timestamp >= s[j].timestamp}

\* .offset((page - 1) * page_size).limit(page_size)
OffsetLimit(ordered, page, page_size) ==
    LET offset == (page - 1) * page_size
        last == IF offset + page_size < Len(ordered) THEN offset + page_size
                ELSE Len(ordered)
    IN  SubSeq(ordered, offset + 1, last)

\* max(1, math.ceil(total / page_size))
PageCount(total, page_size) ==
    LET ceil == (total + page_size - 1) \div page_size
    IN  IF ceil > 1 THEN ceil ELSE 1

\* GET /audit-logs: require_role("admin"), then list_audit_logs.  One call
\* is followed here; its answer is held until the next unit of work or tick.
ListAuditLogs(principal, f, page, page_size) ==
    /\ ~query.returned
    /\ LET auth == AuthStatus("list_audit_logs", principal)
           base == WhereFilters(TenantScoped(audit_logs, principal.tenant_id), f)
           Reply(code, items, total) ==
               [returned |-> TRUE, principal |-> principal, status |-> code,
                filters |-> f, page |-> page, page_size |-> page_size,
                items |-> items, total |-> total,
                pages |-> PageCount(total, page_size)]
       IN  IF auth # 0 THEN query' = Reply(auth, <<>>, 0)
           ELSE IF ~IsUUID(principal.tenant_id) THEN query' = Reply(500, <<>>, 0)
           ELSE \E ordered \in OrderByTimestampDesc(base) :
                    query' = Reply(200, OffsetLimit(ordered, page, page_size),
                                   Cardinality(base))
    /\ UNCHANGED <<reqVars, bgVars, cipherVars, schemaVars, resources, audit_logs, now>>

\* The wall clock advances between units of work.
QueryTick(t) ==
    /\ t > now
    /\ now' = t
    /\ query' = NoQuery
    /\ UNCHANGED <<reqVars, bgVars, cipherVars, schemaVars, resources, audit_logs>>

NextQuery ==
    \/ \E w \in QueryWriters :
            RecordAuditCommitted(w.principal, w.action, w.resource_type, w.resource_id)
    \/ \E caller \in QueryAdmins, f \in QueryFilters, pg \in QueryPages :
            ListAuditLogs(caller, f, pg[1], pg[2])
    \/ \E caller \in QueryClinicians : ListAuditLogs(caller, NoFilters, 1, 1)
    \/ \E t \in Instants : QueryTick(t)

SpecQuery == Init /\ [][NextQuery]_vars

-----------------------------------------------------------------------------
(* Namespace derivation: the tenant claim taken through                     *)
(* TenantMiddleware.dispatch and then through _validate_schema_name as      *)
(* often as sessions are opened for the request.                            *)

\* Bounds: length of the enumerated claims, validations of one namespace.
MaxClaimLen == 3
MaxValidations == 2

\* Characters of the enumerated claims: hexadecimal digits, the separator of
\* a UUID, and characters no UUID has.
ClaimChars == {"a", "1", "-", ";", "{", "\n"}

\* A claim of n characters "a".
LongClaim(n) == [i \in 1..n |-> "a"]

\* The tenant_id claims: every text of up to MaxClaimLen characters, and
\* texts as long as a UUID (36), as the longest accepted claim (56), and one
\* character longer.
TenantClaims ==
    UNION {[1..n -> ClaimChars] : n \in 0..MaxClaimLen}
        \cup {LongClaim(36), LongClaim(56), LongClaim(57)}

\* tenant.py lines 52-61: the claim of a decoded token becomes the namespace
\* that tenant_context holds.
DeriveSchema(claim) ==
    /\ derived.pc \in {"idle", "validated", "rejected"}
    /\ derived' = [claim |-> claim, pc |-> "derived",
                   schema |-> ResolveTenant(PatientsColl, Jwt("u1", claim, "admin")),
                   ok |-> TRUE, validations |-> 0]
    /\ UNCHANGED <<reqVars, bgVars, cipherVars, queryVars, resources, audit_logs, now>>

\* get_db line 88 / _write_audit line 124: the namespace in the context is
\* validated; the value returned is what the session is bound to.
ValidateDerived ==
    /\ derived.pc \in {"derived", "validated"}
    /\ derived.validations < MaxValidations
    /\ LET v == ValidateSchemaName(derived.schema)
       IN  derived' = [derived EXCEPT !.pc = IF v.ok THEN "validated" ELSE "rejected",
                                      !.schema = v.value, !.ok = v.ok,
                                      !.validations = @ + 1]
    /\ UNCHANGED <<reqVars, bgVars, cipherVars, queryVars, resources, audit_logs, now>>

NextSchema ==
    \/ \E claim \in TenantClaims : DeriveSchema(claim)
    \/ ValidateDerived

SpecSchema == Init /\ [][NextSchema]_vars

-----------------------------------------------------------------------------
(* Properties of the request pipeline                                      *)

Entered(r) == pc[r] \notin {"idle", "tenant"}
Done(r) == pc[r] = "done"
Tok(r) == req[r].token

\* The tenant claim of r's token is absent, empty or malformed (its derived
\* schema name is rejected by the validator), or the token is absent/invalid.
BadTenantCredentials(r) ==
    \/ Tok(r).kind \in {"none", "bad"}
    \/ Tok(r).tenant_id = <<>>
    \/ ~SafeSchemaRe(SchemaFor(Tok(r).tenant_id))

\* Rows written on behalf of request r by the handler or by the middleware.
RowsOf(r) == {e \in audit_logs : e.id \in {<<"handler", r>>, <<"middleware", r>>}}
MiddlewareRowsOf(r) == {e \in audit_logs : e.id = <<"middleware", r>>}

\* C1: on a non-public route, an absent or invalid token or a missing, empty
\* or malformed tenant claim makes tenant resolution fail and the request is
\* rejected; the request's namespace is never the default namespace.
C1_FailsClosed ==
    \A r \in Requests :
        (Entered(r) /\ ~IsPublic(req[r].path) /\ BadTenantCredentials(r)) =>
            /\ tenant_context[ContextOf(r, "handler")] # DEFAULT_TENANT_SCHEMA
            /\ ~session[r].open
            /\ (Done(r) => response[r] >= 400)

\* C2: every audit row written for a request (by the handler's unit of work
\* or by the audit middleware) is written after tenant resolution and under
\* exactly the namespace resolved for that request.
C2_AuditUnderResolvedNamespace ==
    \A r \in Requests : \A e \in RowsOf(r) :
        /\ Entered(r)
        /\ e.schema = ResolveTenant(req[r].path, Tok(r))
        /\ e.schema = tenant_context[ContextOf(r, "handler")]

\* C3: with requests of different tenants in flight and interleaved, the
\* namespace a request's database session is bound to is the one derived
\* from that request's own tenant claim, never one set by another request.
C3_SessionNamespaceIsOwn ==
    \A r \in Requests :
        (session[r].open /\ Tok(r).tenant_id # <<>>) =>
            session[r].schema = SchemaFor(Tok(r).tenant_id)

C3_Witness ==
    /\ pc[1] = "handler" /\ pc[2] = "handler"
    /\ session[1].schema = SchemaFor(TenantA)
    /\ session[2].schema = SchemaFor(TenantB)

IsAuditLogPath(path) == StartsWith(path, AuditLogsColl)

\* C4: every audit row once written stays in the ledger unchanged whatever
\* operation runs next, and an update or delete request addressed to an
\* audit entry is rejected.
C4_LedgerAppendOnly ==
    /\ [][\A e \in audit_logs : e \in audit_logs']_vars
    /\ [](\A r \in Requests :
            (Done(r) /\ IsAuditLogPath(req[r].path) /\ req[r].method \in {"PUT", "DELETE"})
                => response[r] \in {403, 404, 405})

C4_Witness ==
    \E r \in Requests :
        /\ Done(r) /\ req[r].path = AuditLogsItem /\ req[r].method = "DELETE"
        /\ audit_logs # {}

\* C5: when the handler's transactional audit write fails, the unit of work
\* is rolled back and the caller gets the error, so that every committed
\* resource mutation has the audit row written with it.
C5_NoMutationWithoutAudit ==
    /\ \A m \in resources : \E e \in audit_logs :
            /\ e.id = <<"handler", m.request>>
            /\ e.action = m.op
            /\ e.tenant_id = m.tenant_id
            /\ e.resource_type = m.resource_type
            /\ e.schema = m.schema
    /\ \A r \in Requests :
            (pc[r] \in {"audit_exit", "done"} /\ outcome[r].error = "AuditWriteError") =>
                /\ ~\E m \in resources : m.request = r
                /\ (Done(r) => response[r] = 500)

C5_Witness ==
    \E r \in Requests :
        /\ Done(r) /\ outcome[r].error = "AuditWriteError"
        /\ req[r].method = "POST" /\ req[r].path = PatientsColl

\* C6: a failure of the audit middleware's best-effort write leaves the
\* handler's response and the handler's committed work as they were.
C6_BestEffortFailureIsContained ==
    [][\A r \in Requests :
        (pc[r] = "audit_exit" /\ pc'[r] = "done" /\ mw_audit'[r] = "failed") =>
            /\ response'[r] = outcome[r].status
            /\ outcome'[r] = outcome[r]
            /\ resources' = resources
            /\ audit_logs' = audit_logs]_vars

C6_Witness ==
    \E r \in Requests :
        /\ Done(r) /\ mw_audit[r] = "failed" /\ response[r] = 201
        /\ \E m \in resources : m.request = r

PathHasPhiPrefix(path) ==
    \E i \in 1..Len(PHI_PREFIXES) :
        Len(path) >= Len(PHI_PREFIXES[i]) /\ SubSeq(path, 1, Len(PHI_PREFIXES[i])) = PHI_PREFIXES[i]

AutomaticWriteDue(r) ==
    /\ PathHasPhiPrefix(req[r].path)
    /\ outcome[r].kind # "exception"
    /\ Tok(r).kind = "jwt"
    /\ Tok(r).sub # ""
    /\ Tok(r).tenant_id # <<>>

IsWrite(method) == method \in {"POST", "PUT", "PATCH", "DELETE"}

\* C8: every successful create, update or delete on a PHI-prefixed route
\* leaves an audit row with the principal's tenant and actor, the action of
\* the write and the resource type of the resource written.
C8_WriteLeavesAuditRow ==
    \A r \in Requests :
        (Done(r) /\ PathHasPhiPrefix(req[r].path) /\ IsWrite(req[r].method)
                 /\ response[r] \in {200, 201, 204}) =>
            \E m \in resources : \E e \in RowsOf(r) :
                /\ m.request = r
                /\ e.tenant_id = Tok(r).tenant_id
                /\ e.user_id = Tok(r).sub
                /\ e.action = MethodToAction(req[r].method)
                /\ e.action = m.op
                /\ e.resource_type = m.resource_type

C8_Witness ==
    \E r \in Requests :
        /\ Done(r) /\ req[r].path = PatientsItem /\ req[r].method = "DELETE"
        /\ response[r] = 204 /\ mw_audit[r] = "failed"

\* The handler of r's route depends on get_db, and its authentication passed.
NeedsSession(r) ==
    /\ RouteOf(req[r].path, req[r].method) \notin {"404", "405", "health_check"}
    /\ AuthStatus(RouteOf(req[r].path, req[r].method), Tok(r)) = 0

PastRoute(r) == pc[r] \in {"handler", "get_db_exit", "audit_exit", "done"}

\* Rows and resource mutations written through the handler's session of r.
HandlerWritesOf(r) ==
    {e \in audit_logs : e.id = <<"handler", r>>} \cup {m \in resources : m.request = r}

\* C23: a session opened by get_db for a handler, or by the audit middleware,
\* is bound only to a namespace that matches the validator's grammar and is
\* the one held in the context it was opened in; when that namespace fails
\* validation the error is raised before the session does anything (no
\* session is bound, nothing is written, the caller gets the error) and the
\* default namespace is not used in its place.
C23_SessionsBoundToValidatedNamespace ==
    \A r \in Requests :
        /\ session[r].open =>
              /\ SafeSchemaRe(session[r].schema)
              /\ session[r].schema = tenant_context[ContextOf(r, "handler")]
        /\ \A w \in HandlerWritesOf(r) :
              /\ SafeSchemaRe(w.schema)
              /\ w.schema = tenant_context[ContextOf(r, "handler")]
        /\ \A e \in MiddlewareRowsOf(r) :
              /\ SafeSchemaRe(e.schema)
              /\ e.schema = tenant_context[ContextOf(r, "audit")]
        /\ (PastRoute(r) /\ NeedsSession(r)
                /\ ~SafeSchemaRe(tenant_context[ContextOf(r, "handler")])) =>
              /\ ~session[r].open
              /\ session[r].schema # DEFAULT_TENANT_SCHEMA
              /\ HandlerWritesOf(r) = {}
              /\ outcome[r].kind = "exception" /\ outcome[r].error = "ValueError"
              /\ (Done(r) => response[r] = 500)
        /\ (Done(r) /\ ~SafeSchemaRe(tenant_context[ContextOf(r, "audit")])) =>
              mw_audit[r] # "written"

\* An update under a token whose tenant claim is a;: get_db raises before the
\* session is bound, and the caller gets a 500.
C23_Witness ==
    \E r \in Requests :
        /\ Done(r) /\ req[r].path = PatientsItem /\ req[r].method = "PUT"
        /\ Tok(r).tenant_id = MalformedTenant
        /\ tenant_context[ContextOf(r, "handler")] = SchemaFor(MalformedTenant)
        /\ session[r] = NoSession
        /\ response[r] = 500

\* The actions an audit entry may carry.
AuditActions ==
    {"create", "read", "update", "delete", "sign", "withdraw", "break_glass_activate",
     "break_glass_deactivate", "login", "logout", "export"}

\* C24: every audit entry, whichever path wrote it (a resource handler, the
\* break-glass calls, the audit middleware) and whatever HTTP method the
\* request carried, has an action of the fixed set AuditActions.
C24_ActionInEnum ==
    \A e \in audit_logs : e.action \in AuditActions

-----------------------------------------------------------------------------
(* Properties of the break-glass access manager                            *)

ActivationInFlight(sid) ==
    \E i \in 1..Len(bg_call) : bg_call[i].op = "activate" /\ bg_call[i].session_id = sid

ActivationEntries(g) ==
    {e \in audit_logs :
        /\ e.action = "break_glass_activate"
        /\ e.details.session_id = g.session_id
        /\ e.details.reason = g.reason
        /\ e.details.duration_minutes =
               FromIsoFormat(g.expires_at) - FromIsoFormat(g.activated_at)}

\* C9: every grant in the store whose activation call has finished has
\* exactly one committed break_glass_activate audit entry carrying the
\* grant's reason and duration.
C9_GrantHasOneActivationEntry ==
    \A i \in 1..Len(active_sessions) :
        ~ActivationInFlight(active_sessions[i].session_id) =>
            Cardinality(ActivationEntries(active_sessions[i])) = 1

TheNewCall == bg_call'[Len(bg_call')]

ActivateStep ==
    /\ Len(bg_call') = Len(bg_call) + 1
    /\ TheNewCall.op = "activate"

\* C10: an activation asking for more than 240 minutes is rejected with a
\* validation error (HTTP 400), stores no grant and queues no audit entry; an
\* activation asking for at most 240 minutes is never rejected for its
\* duration and the grant it stores expires exactly the requested number of
\* minutes after its activation, 60 when no duration was given.
C10_DurationLimit ==
    [][ActivateStep =>
          LET c == TheNewCall
              minutes == IF c.requested.given THEN c.requested.minutes ELSE 60
          IN  IF minutes > 240
              THEN /\ c.out.kind = "http_exception" /\ c.out.status = 400
                   /\ c.pending_audit = {}
                   /\ active_sessions' = active_sessions
                   /\ audit_logs' = audit_logs
              ELSE /\ c.out.kind # "http_exception"
                   /\ c.session_id # None =>
                        /\ Len(active_sessions') = Len(active_sessions) + 1
                        /\ LET g == active_sessions'[Len(active_sessions')]
                           IN  /\ g.session_id = c.session_id
                               /\ FromIsoFormat(g.activated_at) = now
                               /\ FromIsoFormat(g.expires_at) = now + minutes]_vars

C10_Witness ==
    /\ \E i \in 1..Len(bg_call) :
          /\ bg_call[i].op = "activate"
          /\ bg_call[i].requested = [given |-> TRUE, minutes |-> 241]
          /\ bg_call[i].out.status = 400
    /\ \E i \in 1..Len(active_sessions) :
          FromIsoFormat(active_sessions[i].expires_at)
              - FromIsoFormat(active_sessions[i].activated_at) = 240
    /\ \E i \in 1..Len(active_sessions) :
          FromIsoFormat(active_sessions[i].expires_at)
              - FromIsoFormat(active_sessions[i].activated_at) = 60

PendingAudit == UNION {bg_call[i].pending_audit : i \in 1..Len(bg_call)}

\* C11: an activation with an empty reason is rejected and leaves nothing
\* behind: every grant in the store has a non-empty reason, and no
\* break_glass_activate entry, queued or committed, carries an empty reason.
C11_ReasonIsMandatory ==
    /\ \A i \in 1..Len(active_sessions) : active_sessions[i].reason # ""
    /\ \A e \in audit_logs \cup PendingAudit :
          e.action = "break_glass_activate" => e.details.reason # ""

\* The step is a call of is_break_glass_active that returns.
CheckStep == last_check'.returned

ExpiryPassed(g) == FromIsoFormat(g.expires_at) < now
OfPair(g, user_id, patient_id) == g.user_id = user_id /\ g.patient_id = patient_id
InStore(store, sid) == \E i \in 1..Len(store) : store[i].session_id = sid

\* C12: once the clock has passed a grant's expires_at, is_active never
\* returns that grant; the check that comes across the expired grant (it is
\* not stopped earlier by a live grant of the pair asked about) removes it
\* from the store; and when the pair has no unexpired grant the result is
\* None.
C12_ExpiredGrantIsGone ==
    [][CheckStep =>
          LET u == last_check'.user_id
              p == last_check'.patient_id
              res == last_check'.result
              Live(i) == /\ OfPair(active_sessions[i], u, p)
                         /\ ~ExpiryPassed(active_sessions[i])
          IN  /\ \A i \in 1..Len(active_sessions) :
                    ExpiryPassed(active_sessions[i]) =>
                        /\ res # active_sessions[i].session_id
                        /\ (\A j \in 1..(i - 1) : ~Live(j)) =>
                               ~InStore(active_sessions', active_sessions[i].session_id)
              /\ (\A i \in 1..Len(active_sessions) : ~Live(i)) => res = None]_vars

\* u1's default grant for p1, activated at minute 0, is asked about at minute
\* 61: the answer is None and the grant is gone.
C12_Witness ==
    /\ last_check.returned /\ last_check.result = None
    /\ last_check.user_id = "u1" /\ last_check.patient_id = "p1"
    /\ now = 61
    /\ active_sessions = <<>>
    /\ \E e \in audit_logs :
          /\ e.action = "break_glass_activate" /\ e.user_id = "u1"
          /\ e.timestamp = 0 /\ e.details.duration_minutes = 60
    /\ ~\E e \in audit_logs : e.action = "break_glass_deactivate"

\* Sessions that are in the store before the step and not after it.
Removed ==
    {active_sessions[i].session_id : i \in 1..Len(active_sessions)}
        \ {active_sessions'[i].session_id : i \in 1..Len(active_sessions')}

DeactivateStep ==
    /\ Len(bg_call') = Len(bg_call) + 1
    /\ TheNewCall.op = "deactivate"

\* C13: an activation that returns has stored its grant; a grant leaves the
\* store only through a deactivate call naming it or through an is_active
\* check after its expiry; and while a default (60-minute) grant of a pair is
\* in the store and fewer than 60 minutes have passed since its activation,
\* is_active for the pair returns a grant id, whatever other grants exist.
C13_ActiveUntilExpiryOrRevocation ==
    /\ [][(ActivateStep /\ TheNewCall.out.kind = "response") =>
             InStore(active_sessions', TheNewCall.session_id)]_vars
    /\ [][\A sid \in Removed :
             \/ DeactivateStep /\ TheNewCall.session_id = sid
             \/ /\ CheckStep
                /\ \E i \in 1..Len(active_sessions) :
                      /\ active_sessions[i].session_id = sid
                      /\ ExpiryPassed(active_sessions[i])]_vars
    /\ [][CheckStep =>
             ((\E i \in 1..Len(active_sessions) :
                  /\ OfPair(active_sessions[i], last_check'.user_id, last_check'.patient_id)
                  /\ FromIsoFormat(active_sessions[i].expires_at)
                         = FromIsoFormat(active_sessions[i].activated_at) + 60
                  /\ now < FromIsoFormat(active_sessions[i].activated_at) + 60)
              => last_check'.result # None)]_vars

\* u1's default grant is found although u2's grant precedes it in the store.
C13_Witness ==
    /\ last_check.returned /\ last_check.user_id = "u1" /\ last_check.patient_id = "p1"
    /\ Len(active_sessions) = 2
    /\ active_sessions[1].user_id = "u2"
    /\ active_sessions[2].user_id = "u1"
    /\ active_sessions[2].reason # ""
    /\ FromIsoFormat(active_sessions[2].expires_at)
           = FromIsoFormat(active_sessions[2].activated_at) + 60
    /\ now < FromIsoFormat(active_sessions[2].expires_at)
    /\ last_check.result = active_sessions[2].session_id

\* C14: a deactivate call whose id is not in the store, or names a grant
\* whose expires_at has passed, is a no-op: it returns normally, queues no
\* audit entry and changes no other grant.
C14_DeactivateUnknownOrExpiredIsNoOp ==
    [][DeactivateStep =>
          LET sid == TheNewCall.session_id
              Target == {i \in 1..Len(active_sessions) :
                            active_sessions[i].session_id = sid}
          IN  (\A i \in Target : ExpiryPassed(active_sessions[i])) =>
                  /\ TheNewCall.out.kind = "response"
                  /\ TheNewCall.pending_audit = {}
                  /\ active_sessions' =
                         SelectSeq(active_sessions, LAMBDA g : g.session_id # sid)]_vars

DeactivateEntriesIn(rows, sid) ==
    {e \in rows : e.action = "break_glass_deactivate" /\ e.details.session_id = sid}
DeactivateEntries(sid) == DeactivateEntriesIn(audit_logs \cup PendingAudit, sid)

\* C15: a deactivate call naming a grant that is in the store and unexpired
\* removes the grant and emits exactly one break_glass_deactivate entry for
\* it; repeated calls add no further entry, so that no grant ever has more
\* than one.
C15_DeactivateEmitsOneEntry ==
    /\ [][DeactivateStep =>
             \A i \in 1..Len(active_sessions) :
                 (active_sessions[i].session_id = TheNewCall.session_id
                    /\ ~ExpiryPassed(active_sessions[i])) =>
                     /\ ~InStore(active_sessions', TheNewCall.session_id)
                     /\ Cardinality(DeactivateEntriesIn(audit_logs' \cup PendingAudit',
                                                         TheNewCall.session_id)) = 1]_vars
    /\ [](\A sid \in 1..MaxUuid : Cardinality(DeactivateEntries(sid)) <= 1)

\* C16: with is_active, activate and deactivate interleaved across threads,
\* no is_active call fails because another call removed the grant it was
\* about to remove, and no is_active call returns a grant whose expiry had
\* passed when the call read the clock.
C16_AtomicRemoveIfExpired ==
    \A th \in Threads :
        scan[th].pc = "done" =>
            /\ scan[th].error = "none"
            /\ \A i \in 1..Len(active_sessions) :
                   active_sessions[i].session_id = scan[th].result =>
                       ~(FromIsoFormat(active_sessions[i].expires_at) < scan[th].at)

\* C25: is_active never returns a grant whose expires_at is not strictly
\* later than the time of the call: at the instant now = expires_at the
\* grant already counts as expired.
C25_ActiveOnlyBeforeExpiry ==
    last_check.returned =>
        \A i \in 1..Len(active_sessions) :
            active_sessions[i].session_id = last_check.result =>
                FromIsoFormat(active_sessions[i].expires_at) > last_check.at

\* Minutes between a grant's activation and its expiry.
Lifetime(g) == FromIsoFormat(g.expires_at) - FromIsoFormat(g.activated_at)

\* C26: in every reachable state every grant in the store expires at most
\* 240 minutes after its activation, whatever activate, is_active and
\* deactivate calls came before.
C26_LifetimeAtMostMaximum ==
    \A i \in 1..Len(active_sessions) : Lifetime(active_sessions[i]) <= 240

\* After an activation for 240 minutes, a revocation of another grant and the
\* passing of 61 minutes, is_active finds the 240-minute grant.
C26_Witness ==
    /\ now = 61
    /\ last_check.returned /\ last_check.result # None
    /\ \E i \in 1..Len(active_sessions) :
          /\ active_sessions[i].session_id = last_check.result
          /\ Lifetime(active_sessions[i]) = 240
    /\ \E e \in audit_logs : e.action = "break_glass_deactivate"

\* C27: every grant in the store expires strictly later than it was
\* activated, and no break_glass_activate entry, queued or committed, records
\* a duration of zero or fewer minutes: an activation asking for such a
\* duration stores nothing and writes nothing.
C27_LifetimeIsPositive ==
    /\ \A i \in 1..Len(active_sessions) : Lifetime(active_sessions[i]) > 0
    /\ \A e \in audit_logs \cup PendingAudit :
          e.action = "break_glass_activate" => e.details.duration_minutes > 0

\* C28: deactivate removes a grant only for the actor the grant was issued
\* to, in the grant's tenant: called by another user, or by a user of another
\* tenant, it leaves the grant in the store; and every break_glass_deactivate
\* entry it queues names the tenant and actor of the grant revoked.
C28_OnlyTheHolderRevokes ==
    [][DeactivateStep =>
          \A i \in 1..Len(active_sessions) :
              active_sessions[i].session_id = TheNewCall.session_id =>
                  LET g == active_sessions[i]
                      caller == TheNewCall.principal
                  IN  /\ (caller.sub # g.user_id \/ caller.tenant_id # g.tenant_id) =>
                             InStore(active_sessions', g.session_id)
                      /\ \A e \in TheNewCall.pending_audit :
                             e.tenant_id = g.tenant_id /\ e.user_id = g.user_id]_vars

\* C29: when deactivate is called with the id that is_active has just
\* returned for a pair, no unexpired grant of that pair is left in the store,
\* so that is_active returns None for the pair until the next activation,
\* however many activations for the pair came before.
C29_RevokedPairIsInactive ==
    [][(DeactivateStep /\ last_check.returned /\ last_check.result # None
            /\ TheNewCall.session_id = last_check.result) =>
          ~\E i \in 1..Len(active_sessions') :
              /\ OfPair(active_sessions'[i], last_check.user_id, last_check.patient_id)
              /\ FromIsoFormat(active_sessions'[i].expires_at) > now]_vars

\* C30: an is_active call changes the store only by removing grants whose
\* expiry has passed: every grant it leaves is a grant that was there, with
\* every field as it was and in the same order; every grant it removes had
\* expired; and it writes and queues no audit entry.
C30_CheckOnlyPurgesExpired ==
    [][CheckStep =>
          /\ active_sessions' =
                 SelectSeq(active_sessions,
                           LAMBDA g : InStore(active_sessions', g.session_id))
          /\ \A i \in 1..Len(active_sessions) :
                 ~InStore(active_sessions', active_sessions[i].session_id) =>
                     FromIsoFormat(active_sessions[i].expires_at) < now
          /\ audit_logs' = audit_logs
          /\ bg_call' = bg_call]_vars

\* At minute 61 is_active(u1, p1) has returned the second grant, the only one
\* left in the store; the first one was issued for 60 minutes at minute 0.
C30_Witness ==
    /\ now = 61
    /\ last_check.returned /\ last_check.result = 2
    /\ last_check.user_id = "u1" /\ last_check.patient_id = "p1"
    /\ Len(active_sessions) = 1 /\ active_sessions[1].session_id = 2
    /\ active_sessions[1].last_reauth = active_sessions[1].activated_at
    /\ \E e \in audit_logs :
          /\ e.action = "break_glass_activate" /\ e.details.session_id = 1
          /\ e.details.duration_minutes = 60 /\ e.timestamp = 0
    /\ ~\E e \in audit_logs : e.action = "break_glass_deactivate"

-----------------------------------------------------------------------------
(* Properties of the field cipher                                          *)

Finished(th, op) == cipher[th].pc = "done" /\ cipher[th].op = op

\* The decrypt_value call of th was given what encrypt_value returned for e
\* and ran under the key e was encrypted with.
DecryptsUnderSameKey(th, e) ==
    /\ Finished(th, "decrypt")
    /\ cipher[th].ciphertext = e.ciphertext
    /\ e.ciphertext.kind = "token" => cipher[th].key = e.ciphertext.key

\* C17: decrypting, under the same key, what encrypt_value returned for a
\* plaintext p returns p, the empty text included.
C17_RoundTrip ==
    \A th \in Threads : \A e \in encrypted :
        DecryptsUnderSameKey(th, e) => cipher[th].text = e.plaintext

C17_Witness ==
    /\ \E th \in Threads : \E e \in encrypted :
          /\ DecryptsUnderSameKey(th, e)
          /\ e.plaintext = <<"e'", "a">> /\ cipher[th].text = <<"e'", "a">>
    /\ \E th \in Threads : \E e \in encrypted :
          /\ DecryptsUnderSameKey(th, e)
          /\ e.plaintext = <<>> /\ cipher[th].text = <<>>

\* C18 as stated: two encrypt_value calls for the same plaintext never
\* return the same ciphertext.
C18_CiphertextsDiffer ==
    \A e1, e2 \in encrypted :
        (e1.call # e2.call /\ e1.plaintext = e2.plaintext) =>
            e1.ciphertext # e2.ciphertext

\* C18, amended: two encrypt_value calls for the same non-empty plaintext
\* never return the same ciphertext; for the empty plaintext both return the
\* empty text.
C18_NonEmptyCiphertextsDiffer ==
    \A e1, e2 \in encrypted :
        (e1.call # e2.call /\ e1.plaintext = e2.plaintext) =>
            IF e1.plaintext = <<>>
            THEN e1.ciphertext = EmptyText /\ e2.ciphertext = EmptyText
            ELSE e1.ciphertext # e2.ciphertext

\* Two calls for the same non-empty plaintext under the same key.
C18_Witness ==
    \E e1, e2 \in encrypted :
        /\ e1.call # e2.call
        /\ e1.plaintext = <<"a">> /\ e2.plaintext = <<"a">>
        /\ e1.ciphertext.key = e2.ciphertext.key
        /\ e1.ciphertext # e2.ciphertext

\* The decrypt_value call of th was given a ciphertext that cannot be opened
\* under the key the call used: not a token, a damaged token, or a token made
\* under another key.
DecryptsUnopenable(th) ==
    /\ Finished(th, "decrypt")
    /\ cipher[th].ciphertext.kind # "empty"
    /\ ~FernetDecrypt(cipher[th].key, cipher[th].ciphertext).ok

\* What decrypt_value returns for an absent or empty field.
ReturnedForEmpty == NoCipherCall.text

\* C19: decrypting a damaged ciphertext, or one made under another key,
\* never returns the plaintext it was made from, and what it returns differs
\* from what decrypt_value returns for an empty field.
C19_FailureIsDistinguishable ==
    \A th \in Threads :
        DecryptsUnopenable(th) =>
            /\ cipher[th].ciphertext.kind = "token" =>
                   Decode(cipher[th].ciphertext.bytes).text # cipher[th].text
            /\ cipher[th].text # ReturnedForEmpty

\* Keys that calls of the process have worked with so far.
KeysUsed ==
    {cipher[th].key : th \in {t \in Threads : cipher[t].pc = "done" /\ cipher[t].key # NoKey}}
        \cup {e.ciphertext.key : e \in {x \in encrypted : x.ciphertext.kind = "token"}}

\* C20: the key is established once and never changes: the module's key,
\* once set, stays what it is, and all encrypt and decrypt calls of the
\* process, the first ones included and also when no key is configured, work
\* with one and the same key.
C20_OneKeyPerProcess ==
    /\ [][fernet # NoKey => fernet' = fernet]_vars
    /\ [](Cardinality(KeysUsed) <= 1)

-----------------------------------------------------------------------------
(* Properties of the audit log query                                       *)

\* A parameter counts as supplied when it was sent with a non-empty value.
Supplied(f) == f.given /\ f.value # ""

\* The entries of the caller's tenant that satisfy every supplied filter.
EntriesAskedFor ==
    LET f == query.filters
    IN  {e \in audit_logs :
            /\ e.tenant_id = query.principal.tenant_id
            /\ Supplied(f.user_id) => e.user_id = f.user_id.value
            /\ Supplied(f.action) => e.action = f.action.value
            /\ Supplied(f.resource_type) => e.resource_type = f.resource_type.value
            /\ Supplied(f.resource_id) => e.resource_id = f.resource_id.value
            /\ f.from_date.given => f.from_date.value <= e.timestamp
            /\ f.to_date.given => e.timestamp <= f.to_date.value}

ItemsReturned == {query.items[i] : i \in 1..Len(query.items)}

\* C21: an audit query returns only entries of the calling administrator's
\* tenant; its total counts exactly the entries of that tenant satisfying
\* all supplied filters (time range inclusive at both ends), and its page is
\* the slice of those entries that page and page size select, without
\* repetition; a caller who is not an administrator gets no entry.
C21_QueryIsTenantScopedAndFiltered ==
    query.returned =>
        /\ \A e \in ItemsReturned : e.tenant_id = query.principal.tenant_id
        /\ ItemsReturned \subseteq EntriesAskedFor
        /\ query.total = (IF query.status = 200 THEN Cardinality(EntriesAskedFor) ELSE 0)
        /\ Cardinality(ItemsReturned) = Len(query.items)
        /\ LET rest == query.total - (query.page - 1) * query.page_size
           IN  Len(query.items) = IF rest <= 0 THEN 0
                                  ELSE IF rest < query.page_size THEN rest
                                  ELSE query.page_size
        /\ query.principal.role # "admin" => query.status = 403 /\ query.items = <<>>

\* Tenant A's administrator asks for the reads within minutes 60..60 while
\* the ledger holds an entry of tenant B, an entry of tenant A made at minute
\* 60 and an older one: the answer is the one entry made at minute 60.
C21_Witness ==
    /\ query.returned /\ query.status = 200
    /\ query.principal.tenant_id = TenantA
    /\ query.filters.action = Given("read")
    /\ query.filters.from_date = Given(60) /\ query.filters.to_date = Given(60)
    /\ query.total = 1 /\ Len(query.items) = 1
    /\ query.items[1].timestamp = 60
    /\ \E e \in audit_logs : e.tenant_id = TenantB /\ e.action = "read" /\ e.timestamp = 60
    /\ \E e \in audit_logs : e.tenant_id = TenantA /\ e.action = "read" /\ e.timestamp = 0

-----------------------------------------------------------------------------
(* Properties of the namespace derivation                                  *)

\* The length of a UUID in its canonical text form.
UuidTextLen == 36

\* A well-formed tenant claim: the canonical text of a UUID, hexadecimal
\* digits and hyphens (the enumerated claims are shorter than a real one).
WellFormedClaim(claim) ==
    /\ Len(claim) \in 1..UuidTextLen
    /\ \A i \in 1..Len(claim) : claim[i] \in HexChars \cup {"-"}

\* The identifier grammar of a namespace: letters, digits and underscores,
\* not starting with a digit, at most 63 characters.
InGrammar(name) ==
    /\ Len(name) \in 1..63
    /\ name[1] \notin DigitChars
    /\ \A i \in 1..Len(name) : name[i] \in Letters \cup DigitChars \cup {"_"}

\* C22: the namespace derived from a well-formed tenant claim (the tenant
\* prefix followed by the claim with its separators replaced) is accepted by
\* the validator, and validating a namespace that was accepted before returns
\* the same namespace and does not fail.
C22_DerivedNamespaceRoundTrips ==
    /\ []((derived.pc # "idle" /\ WellFormedClaim(derived.claim)) =>
            /\ derived.ok /\ derived.pc # "rejected"
            /\ Len(derived.schema) = Len(TenantPrefix) + Len(derived.claim)
            /\ SubSeq(derived.schema, 1, Len(TenantPrefix)) = TenantPrefix
            /\ \A i \in 1..Len(derived.claim) :
                  derived.schema[Len(TenantPrefix) + i] =
                      (IF derived.claim[i] = "-" THEN "_" ELSE derived.claim[i])
            /\ InGrammar(derived.schema))
    /\ [][(derived.pc = "validated" /\ derived'.validations = derived.validations + 1) =>
             /\ derived'.ok /\ derived'.pc = "validated"
             /\ derived'.schema = derived.schema]_vars

\* The namespace of the claim a-1 has been validated twice.
C22_Witness ==
    /\ derived.pc = "validated" /\ derived.validations = 2
    /\ derived.claim = TenantA
    /\ derived.schema = <<"t", "e", "n", "a", "n", "t", "_", "a", "_", "1">>

=============================================================================
